---- MODULE Spec2Model ----
(***************************************************************************)
(* Model of src/PyMuPDF.py: the PDF comment extraction tool.               *)
(*                                                                         *)
(* Strings are sequences of one-character strings, so that strip, replace, *)
(* upper and format are computed character by character.  Printable ASCII  *)
(* and the escapes \t, \n, \f, \r stand for themselves; every other         *)
(* character is named by its code point: "U8AAD" is U+8AAD, "U000B" the    *)
(* vertical tab, "U3000" the ideographic space.                            *)
(* An optional value (None or a value) is a sequence of length 0 or 1.     *)
(* A float is the exact fraction [num, den] it stores, den a power of two;  *)
(* num stays within the 32-bit integers, so that c * 255 is exact as a     *)
(* double.                                                                 *)
(***************************************************************************)
EXTENDS Integers, Sequences, FiniteSets, TLC

VARIABLES pc, total_pages, i, doc, blocks, drawing_no, annots,
          extracted_data, color_tuple, color_hex, color_name

vars == <<pc, total_pages, i, doc, blocks, drawing_no, annots,
          extracted_data, color_tuple, color_hex, color_name>>

----------------------------------------------------------------------------
(* Bounds of the model *)

MaxBlocks == 2
MaxCoord == 2
MaxChannels == 4
MaxAnnots == 2
MaxPages == 2

----------------------------------------------------------------------------
(* Optional values and string primitives *)

None == <<>>
Some(v) == <<v>>

\* Python's truthiness of an optional string or tuple: None and the empty
\* sequence are falsy.
truthy(opt) == opt # None /\ Len(opt[1]) > 0

\* the characters str.strip() removes: those for which str.isspace() holds
Whitespace ==
    {"\t", "\n", "U000B", "\f", "\r", "U001C", "U001D", "U001E", "U001F", " ",
     "U0085", "U00A0", "U1680", "U2000", "U2001", "U2002", "U2003", "U2004",
     "U2005", "U2006", "U2007", "U2008", "U2009", "U200A", "U2028", "U2029",
     "U202F", "U205F", "U3000"}

RECURSIVE lstrip(_)
lstrip(s) ==
    IF s = <<>> THEN <<>>
    ELSE IF Head(s) \in Whitespace THEN lstrip(Tail(s)) ELSE s

RECURSIVE rstrip(_)
rstrip(s) ==
    IF s = <<>> THEN <<>>
    ELSE IF s[Len(s)] \in Whitespace THEN rstrip(SubSeq(s, 1, Len(s) - 1)) ELSE s

\* str.strip()
strip(s) == rstrip(lstrip(s))

\* str.replace(old, new) for a one-character old
RECURSIVE replace(_, _, _)
replace(s, old, new) ==
    IF s = <<>> THEN <<>>
    ELSE (IF Head(s) = old THEN new ELSE <<Head(s)>>) \o replace(Tail(s), old, new)

LowerLetters == <<"a", "b", "c", "d", "e", "f", "g", "h", "i", "j", "k", "l", "m",
                  "n", "o", "p", "q", "r", "s", "t", "u", "v", "w", "x", "y", "z">>
UpperLetters == <<"A", "B", "C", "D", "E", "F", "G", "H", "I", "J", "K", "L", "M",
                  "N", "O", "P", "Q", "R", "S", "T", "U", "V", "W", "X", "Y", "Z">>

upper_char(c) ==
    IF \E k \in 1..Len(LowerLetters) : LowerLetters[k] = c
    THEN UpperLetters[CHOOSE k \in 1..Len(LowerLetters) : LowerLetters[k] = c]
    ELSE c

\* str.upper()
upper(s) == [k \in 1..Len(s) |-> upper_char(s[k])]

----------------------------------------------------------------------------
(* rgb_to_hex *)

\* "指定なし"
NotSpecified == <<"U6307", "U5B9A", "U306A", "U3057">>

HexDigits == <<"0", "1", "2", "3", "4", "5", "6", "7",
               "8", "9", "a", "b", "c", "d", "e", "f">>
DecDigits == <<"0", "1", "2", "3", "4", "5", "6", "7", "8", "9">>

\* the digits of n >= 0 in the given base, most significant first
RECURSIVE digits(_, _, _)
digits(n, base, table) ==
    IF n < base THEN <<table[n + 1]>>
    ELSE digits(n \div base, base, table) \o <<table[(n % base) + 1]>>

\* The whole part of m * r / den for 0 <= r < den: m is taken a binary digit
\* at a time, the running value kept as a whole part and a remainder below
\* den, so that no step leaves the 32-bit integers.
RECURSIVE floor_times(_, _, _)
floor_times(m, r, den) ==
    IF m = 0 THEN [whole |-> 0, part |-> 0]
    ELSE LET h == floor_times(m \div 2, r, den)
             w1 == IF h.part >= den - h.part THEN 2 * h.whole + 1 ELSE 2 * h.whole
             p1 == IF h.part >= den - h.part THEN h.part - (den - h.part) ELSE 2 * h.part
         IN  IF m % 2 = 0 THEN [whole |-> w1, part |-> p1]
             ELSE IF p1 >= den - r THEN [whole |-> w1 + 1, part |-> p1 - (den - r)]
             ELSE [whole |-> w1, part |-> p1 + r]

\* int(c * 255): the product, which is exact, truncated toward zero
int_times_255(c) ==
    LET a == IF c.num < 0 THEN -c.num ELSE c.num
        v == 255 * (a \div c.den) + floor_times(255, a % c.den, c.den).whole
    IN  IF c.num < 0 THEN -v ELSE v

\* '{:02x}'.format(v): lowercase hex, zero-padded to a width of 2, the sign
\* of a negative value counted in the width
format_02x(v) ==
    IF v < 0 THEN <<"-">> \o digits(-v, 16, HexDigits)
    ELSE IF v < 16 THEN <<"0">> \o digits(v, 16, HexDigits)
    ELSE digits(v, 16, HexDigits)

\* Big numbers for repr(): sequences of decimal digits 0..9, most
\* significant first, zero being the empty sequence.
big_norm(a) ==
    IF \A k \in 1..Len(a) : a[k] = 0 THEN <<>>
    ELSE SubSeq(a, CHOOSE k \in 1..Len(a) : a[k] # 0 /\ \A j \in 1..(k - 1) : a[j] = 0,
                Len(a))

strip_trailing_zeros(a) ==
    IF \A k \in 1..Len(a) : a[k] = 0 THEN <<>>
    ELSE SubSeq(a, 1, CHOOSE k \in 1..Len(a) :
                          a[k] # 0 /\ \A j \in (k + 1)..Len(a) : a[j] = 0)

RECURSIVE big_from_int(_)
big_from_int(n) ==
    IF n = 0 THEN <<>> ELSE big_from_int(n \div 10) \o <<n % 10>>

zeros(n) == [k \in 1..n |-> 0]

\* a < b, both without leading zeros
big_less(a, b) ==
    \/ Len(a) < Len(b)
    \/ /\ Len(a) = Len(b)
       /\ \E k \in 1..Len(a) : a[k] < b[k] /\ \A j \in 1..(k - 1) : a[j] = b[j]

\* a * 5, as half of a * 10
big_times_5(a) ==
    big_norm([k \in 1..(Len(a) + 1) |->
                 (IF k <= Len(a) THEN a[k] \div 2 ELSE 0)
                 + (IF k > 1 /\ a[k - 1] % 2 = 1 THEN 5 ELSE 0)])

\* a * 5^k; each product is computed, by the test of its length, before the
\* next is formed from it
RECURSIVE big_times_pow5(_, _)
big_times_pow5(a, k) ==
    IF k = 0 THEN a
    ELSE LET b == big_times_5(a)
         IN  IF Len(b) >= 0 THEN big_times_pow5(b, k - 1) ELSE <<>>

\* 10^Len(a) - a, for a # 0, in Len(a) digits
big_complement(a) ==
    LET t == CHOOSE k \in 1..Len(a) : a[k] # 0 /\ \A j \in (k + 1)..Len(a) : a[j] = 0
    IN  [k \in 1..Len(a) |-> IF k < t THEN 9 - a[k] ELSE IF k = t THEN 10 - a[k] ELSE 0]

\* a + 1
big_plus_1(a) ==
    IF \A k \in 1..Len(a) : a[k] = 9 THEN <<1>> \o zeros(Len(a))
    ELSE LET t == CHOOSE k \in 1..Len(a) : a[k] # 9 /\ \A j \in (k + 1)..Len(a) : a[j] = 9
         IN  [k \in 1..Len(a) |-> IF k < t THEN a[k] ELSE IF k = t THEN a[k] + 1 ELSE 0]

RECURSIVE bit_length(_)
bit_length(n) == IF n = 0 THEN 0 ELSE 1 + bit_length(n \div 2)

RECURSIVE is_power_of_two(_)
is_power_of_two(n) == n = 1 \/ (n > 1 /\ n % 2 = 0 /\ is_power_of_two(n \div 2))

\* The shortest run of digits that reads back as the same double, as
\* float_repr_style "short" finds it.  V is the value and lo, hi the
\* distances to the midpoints with the neighbouring doubles below and above,
\* all three scaled by one power of ten to whole numbers.  With k digits
\* kept, V is cut down to them, or cut and raised in the last place; the
\* first k for which one of the two stays within the midpoints is taken, of
\* the two the nearer, on a tie the one whose last digit is even.  The
\* result is the digits and the number of digits before the point.
RECURSIVE shortest_digits(_, _, _, _, _)
shortest_digits(V, lo, hi, k, decpt) ==
    IF k >= Len(V) THEN [digits |-> strip_trailing_zeros(V), decpt |-> decpt]
    ELSE LET head == SubSeq(V, 1, k)
             rest == SubSeq(V, k + 1, Len(V))
             down == big_norm(rest)
             up == IF down = <<>> THEN <<>> ELSE big_norm(big_complement(rest))
             raised == big_plus_1(head)
             cut_ok == ~big_less(lo, down)
             raise_ok == ~big_less(hi, up)
             take_raised ==
                 /\ raise_ok
                 /\ down # <<>>
                 /\ \/ ~cut_ok
                    \/ big_less(up, down)
                    \/ (~big_less(down, up) /\ head[k] % 2 = 1)
         IN  IF down = <<>> \/ (cut_ok /\ ~take_raised)
             THEN [digits |-> strip_trailing_zeros(head), decpt |-> decpt]
             ELSE IF take_raised
             THEN [digits |-> strip_trailing_zeros(raised),
                   decpt |-> decpt + (Len(raised) - k)]
             ELSE shortest_digits(V, lo, hi, k + 1, decpt)

digit_chars(a) == [k \in 1..Len(a) |-> DecDigits[a[k] + 1]]

\* the exponent of the 'e' form: a sign and at least two digits
exponent_chars(x) ==
    (IF x < 0 THEN <<"-">> ELSE <<"+">>)
    \o (LET a == IF x < 0 THEN -x ELSE x
        IN  IF a < 10 THEN <<"0">> \o digits(a, 10, DecDigits)
            ELSE digits(a, 10, DecDigits))

\* repr() of the positive double n / den, den a power of two
repr_positive(n, den) ==
    LET q == bit_length(den) - 1
        e == bit_length(n) - 1 - q
        s == 53 - e
        V == big_times_pow5(big_from_int(n), q) \o zeros(s + 1 - q)
        hi == big_times_pow5(<<1>>, s) \o <<0>>
        lo == IF is_power_of_two(n) THEN big_times_pow5(<<1>>, s + 1) ELSE hi
        r == shortest_digits(V, lo, hi, 1, Len(V) - (s + 1))
        d == digit_chars(r.digits)
        n_d == Len(d)
    IN  IF r.decpt <= -4 \/ r.decpt > 16
        THEN <<d[1]>> \o (IF n_d > 1 THEN <<".">> \o SubSeq(d, 2, n_d) ELSE <<>>)
             \o <<"e">> \o exponent_chars(r.decpt - 1)
        ELSE IF r.decpt <= 0
        THEN <<"0", ".">> \o [k \in 1..(-r.decpt) |-> "0"] \o d
        ELSE IF r.decpt < n_d
        THEN SubSeq(d, 1, r.decpt) \o <<".">> \o SubSeq(d, r.decpt + 1, n_d)
        ELSE d \o [k \in 1..(r.decpt - n_d) |-> "0"] \o <<".", "0">>

\* repr() of a float
repr_float(c) ==
    IF c.num = 0 THEN <<"0", ".", "0">>
    ELSE IF c.num < 0 THEN <<"-">> \o repr_positive(-c.num, c.den)
    ELSE repr_positive(c.num, c.den)

RECURSIVE join_reprs(_)
join_reprs(t) ==
    IF Len(t) = 0 THEN <<>>
    ELSE IF Len(t) = 1 THEN repr_float(t[1])
    ELSE repr_float(t[1]) \o <<",", " ">> \o join_reprs(Tail(t))

\* str() of a tuple of floats
str_tuple(t) ==
    <<"(">> \o join_reprs(t) \o (IF Len(t) = 1 THEN <<",">> ELSE <<>>) \o <<")">>

rgb_to_hex_gray_first(color_tuple_) ==
    IF ~truthy(color_tuple_) THEN NotSpecified
    ELSE LET rgb == [k \in 1..Len(color_tuple_[1]) |-> int_times_255(color_tuple_[1][k])]
         IN  IF Len(rgb) \in {1, 3}
             THEN <<"#">> \o format_02x(rgb[1]) \o format_02x(rgb[1]) \o format_02x(rgb[1])
             ELSE str_tuple(color_tuple_[1])

rgb_to_hex(color_tuple_) ==
    IF ~truthy(color_tuple_) THEN NotSpecified
    ELSE LET rgb == [k \in 1..Len(color_tuple_[1]) |-> int_times_255(color_tuple_[1][k])]
         IN  IF Len(rgb) = 3
             THEN <<"#">> \o format_02x(rgb[1]) \o format_02x(rgb[2]) \o format_02x(rgb[3])
             ELSE IF Len(rgb) = 1
             THEN <<"#">> \o format_02x(rgb[1]) \o format_02x(rgb[1]) \o format_02x(rgb[1])
             ELSE str_tuple(color_tuple_[1])

----------------------------------------------------------------------------
(* get_drawing_number *)

\* "(読取不可)"
Unreadable == <<"(", "U8AAD", "U53D6", "U4E0D", "U53EF", ")">>

\* a block of page.get_text("blocks"): b[0..4] = x0, y0, x1, y1, text
Block(x1, y1, text) == [x0 |-> 0, y0 |-> 0, x1 |-> x1, y1 |-> y1, text |-> text]

\* the loop of lines 46-59: one candidate per block with non-empty stripped
\* text, in block order
RECURSIVE candidates_of(_)
candidates_of(bs) ==
    IF bs = <<>> THEN <<>>
    ELSE LET text == strip(Head(bs).text)
         IN  (IF text = <<>> THEN <<>>
              ELSE <<[text |-> text, y1 |-> Head(bs).y1, x1 |-> Head(bs).x1]>>)
             \o candidates_of(Tail(bs))

key_less_x_first(a, b) == a.x1 < b.x1 \/ (a.x1 = b.x1 /\ a.y1 < b.y1)

\* the order of the sort key (x["y1"], x["x1"]): tuples compare
\* lexicographically
key_less(a, b) == a.y1 < b.y1 \/ (a.y1 = b.y1 /\ a.x1 < b.x1)

RECURSIVE insert_desc_unstable(_, _)
insert_desc_unstable(s, c) ==
    IF s = <<>> THEN <<c>>
    ELSE IF ~key_less(c, Head(s)) THEN <<c>> \o s
    ELSE <<Head(s)>> \o insert_desc_unstable(Tail(s), c)

\* c placed into the descending list s behind every element whose key is not
\* smaller: list.sort is stable, also with reverse=True
RECURSIVE insert_desc(_, _)
insert_desc(s, c) ==
    IF s = <<>> THEN <<c>>
    ELSE IF key_less(Head(s), c) THEN <<c>> \o s
    ELSE <<Head(s)>> \o insert_desc(Tail(s), c)

\* candidates.sort(key=..., reverse=True)
RECURSIVE sort_reverse(_)
sort_reverse(cs) ==
    IF cs = <<>> THEN <<>>
    ELSE insert_desc(sort_reverse(SubSeq(cs, 1, Len(cs) - 1)), cs[Len(cs)])

get_drawing_number_keep_newlines(blocks_) ==
    IF blocks_ = <<>> THEN Unreadable
    ELSE LET candidates == candidates_of(blocks_)
         IN  IF candidates = <<>> THEN Unreadable
             ELSE sort_reverse(candidates)[1].text

get_drawing_number_no_filter(blocks_) ==
    IF blocks_ = <<>> THEN Unreadable
    ELSE LET candidates == [k \in 1..Len(blocks_) |->
                               [text |-> strip(blocks_[k].text),
                                y1 |-> blocks_[k].y1, x1 |-> blocks_[k].x1]]
         IN  replace(sort_reverse(candidates)[1].text, "\n", <<>>)

\* get_drawing_number(page, width, height), given the blocks that
\* page.get_text("blocks", clip=clip_rect) returned
get_drawing_number(blocks_) ==
    IF blocks_ = <<>> THEN Unreadable
    ELSE LET candidates == candidates_of(blocks_)
         IN  IF candidates = <<>> THEN Unreadable
             ELSE LET best_candidate == sort_reverse(candidates)[1].text
                  IN  replace(best_candidate, "\n", <<>>)

----------------------------------------------------------------------------
(* the annotation loop of main *)

Red == <<"U8D64">>                      \* "赤"
Blue == <<"U9752">>                     \* "青"
Black == <<"U9ED2">>                    \* "黒"
Other == <<"U305D", "U306E", "U4ED6">>  \* "その他"

color_name_of_exact(color_hex_) ==
    IF color_hex_ = <<"#", "F", "F", "0", "0", "0", "0">> THEN Red
    ELSE IF color_hex_ = <<"#", "0", "0", "0", "0", "F", "F">> THEN Blue
    ELSE IF color_hex_ = <<"#", "0", "0", "0", "0", "0", "0">> THEN Black
    ELSE Other

\* lines 121-124
color_name_of(color_hex_) ==
    IF upper(color_hex_) = <<"#", "F", "F", "0", "0", "0", "0">> THEN Red
    ELSE IF upper(color_hex_) = <<"#", "0", "0", "0", "0", "F", "F">> THEN Blue
    ELSE IF upper(color_hex_) = <<"#", "0", "0", "0", "0", "0", "0">> THEN Black
    ELSE Other

\* dict.get(key, "")
get_or_empty(opt) == IF opt = None THEN <<>> ELSE opt[1]

new_row_page_zero_based(i_, drawing_no_, annot) ==
    LET hex == rgb_to_hex(annot.stroke)
    IN  [page |-> i_, drawing_no |-> drawing_no_, content |-> annot.content[1],
         title |-> get_or_empty(annot.title), modDate |-> get_or_empty(annot.modDate),
         color_name |-> color_name_of(hex), color_hex |-> hex]

\* the row of lines 117-134 for an annotation with content, on the page of
\* index i_ (0-based)
new_row(i_, drawing_no_, annot) ==
    LET hex == rgb_to_hex(annot.stroke)
    IN  [page |-> i_ + 1, drawing_no |-> drawing_no_, content |-> annot.content[1],
         title |-> get_or_empty(annot.title), modDate |-> get_or_empty(annot.modDate),
         color_name |-> color_name_of(hex), color_hex |-> hex]

list_insert_front(data, row) == <<row>> \o data

\* extracted_data.append(row)
list_append(data, row) == Append(data, row)

\* the loop of lines 111-134 over the annotations as_ of one page
RECURSIVE annot_loop(_, _, _, _)
annot_loop(data, as_, i_, drawing_no_) ==
    IF as_ = <<>> THEN data
    ELSE annot_loop(IF ~truthy(Head(as_).content) THEN data
                    ELSE list_append(data, new_row(i_, drawing_no_, Head(as_))),
                    Tail(as_), i_, drawing_no_)

----------------------------------------------------------------------------
(* Inputs *)

SeqsUpTo(S, n) == UNION {[1..k -> S] : k \in 0..n}

Texts == { <<>>, <<"U00A0", "\n">>, <<"A">>, <<"B">>, <<" ", "A", "\n">>,
           <<"\r", "A", "U3000">>, <<"A", "\n", "B">>, Unreadable }
Coords == 1..MaxCoord
Blocks == {Block(x, y, t) : x \in Coords, y \in Coords, t \in Texts}
BlockSeqs == SeqsUpTo(Blocks, MaxBlocks)

F(n, d) == [num |-> n, den |-> d]
InRange == {F(0, 1), F(1, 8), F(1, 2), F(1, 1)}
OutOfRange == {F(-1, 2), F(2, 1)}
Channels == InRange \cup OutOfRange
\* tuples whose channels are printed in the shortest form and with an exponent
FineTuples == {Some(<<F(1, 16384), F(0, 1)>>),
               Some(<<F(13421773, 134217728), F(1, 1)>>),
               Some(<<F(-3, 1048576), F(5, 4), F(3, 8), F(100, 1)>>),
               Some(<<F(1677721, 16777216), F(0, 1), F(1, 1)>>)}
ColorTuples == {None} \cup {Some(t) : t \in SeqsUpTo(Channels, MaxChannels)} \cup FineTuples

Contents == {None, Some(<<>>), Some(<<" ">>), Some(<<"x">>)}
Strokes == {None, Some(<<>>), Some(<<F(1, 1), F(0, 1), F(0, 1)>>),
            Some(<<F(0, 1), F(0, 1), F(1, 1)>>), Some(<<F(0, 1)>>),
            Some(<<F(1, 2), F(1, 2), F(1, 2)>>),
            Some(<<F(0, 1), F(0, 1), F(0, 1), F(1, 1)>>)}
Infos == {[title |-> None, modDate |-> None],
          [title |-> Some(<<"T">>), modDate |-> Some(<<"D">>)]}
Annot(c, s, info) ==
    [content |-> c, stroke |-> s, title |-> info.title, modDate |-> info.modDate]
Annots == {Annot(c, s, info) : c \in Contents, s \in Strokes, info \in Infos}
AnnotSeqs == SeqsUpTo(Annots, MaxAnnots)

\* the pages of the documents of Spec
DocBlockSeqs == {<<>>, <<Block(1, 1, <<"A">>)>>}
DocAnnots == {Annot(None, Some(<<F(1, 1), F(0, 1), F(0, 1)>>), [title |-> Some(<<"T">>), modDate |-> None]),
              Annot(Some(<<"x">>), Some(<<F(1, 1), F(0, 1), F(0, 1)>>), [title |-> Some(<<"T">>), modDate |-> None]),
              Annot(Some(<<"y">>), None, [title |-> None, modDate |-> None])}
DocAnnotSeqs == SeqsUpTo(DocAnnots, MaxAnnots)

----------------------------------------------------------------------------
(* Spec: main on one uploaded document, a page per step *)

Init ==
    /\ pc = "start"
    /\ total_pages = 0
    /\ i = 0
    /\ doc = <<>>
    /\ blocks = <<>>
    /\ drawing_no = <<>>
    /\ annots = <<>>
    /\ extracted_data = <<>>
    /\ color_tuple = None
    /\ color_hex = <<>>
    /\ color_name = <<>>

\* lines 88-97: the document is opened
Upload ==
    /\ pc = "start"
    /\ \E n \in 0..MaxPages : total_pages' = n
    /\ extracted_data' = <<>>
    /\ i' = 0
    /\ pc' = "pages"
    /\ UNCHANGED <<doc, blocks, drawing_no, annots, color_tuple, color_hex, color_name>>

\* lines 99-134: one iteration of the page loop
Page ==
    /\ pc = "pages"
    /\ i < total_pages
    /\ \E bs \in DocBlockSeqs, as \in DocAnnotSeqs :
          /\ blocks' = bs
          /\ annots' = as
          /\ doc' = Append(doc, [blocks |-> bs, annots |-> as])
          /\ drawing_no' = get_drawing_number(bs)
          /\ extracted_data' = annot_loop(extracted_data, as, i, get_drawing_number(bs))
    /\ i' = i + 1
    /\ UNCHANGED <<pc, total_pages, color_tuple, color_hex, color_name>>

\* lines 136-157: the preview and the download, or the warning
Finish ==
    /\ pc = "pages"
    /\ i = total_pages
    /\ pc' = IF extracted_data # <<>> THEN "download" ELSE "warning"
    /\ UNCHANGED <<total_pages, i, doc, blocks, drawing_no, annots, extracted_data,
                   color_tuple, color_hex, color_name>>

Next == Upload \/ Page \/ Finish

Spec == Init /\ [][Next]_vars

----------------------------------------------------------------------------
(* SpecSelect: get_drawing_number on one block sequence *)

InitSelect ==
    /\ pc = "select"
    /\ blocks \in BlockSeqs
    /\ drawing_no = <<>>
    /\ total_pages = 0 /\ i = 0 /\ doc = <<>> /\ annots = <<>>
    /\ extracted_data = <<>>
    /\ color_tuple = None /\ color_hex = <<>> /\ color_name = <<>>

Select ==
    /\ pc = "select"
    /\ drawing_no' = get_drawing_number(blocks)
    /\ pc' = "selected"
    /\ UNCHANGED <<total_pages, i, doc, blocks, annots, extracted_data,
                   color_tuple, color_hex, color_name>>

NextSelect == Select

SpecSelect == InitSelect /\ [][NextSelect]_vars

----------------------------------------------------------------------------
(* SpecColor: lines 117-124 on one stroke colour *)

InitColor ==
    /\ pc = "color"
    /\ color_tuple \in ColorTuples
    /\ color_hex = <<>> /\ color_name = <<>>
    /\ total_pages = 0 /\ i = 0 /\ doc = <<>> /\ blocks = <<>> /\ annots = <<>>
    /\ drawing_no = <<>> /\ extracted_data = <<>>

Color ==
    /\ pc = "color"
    /\ color_hex' = rgb_to_hex(color_tuple)
    /\ color_name' = color_name_of(rgb_to_hex(color_tuple))
    /\ pc' = "colored"
    /\ UNCHANGED <<total_pages, i, doc, blocks, drawing_no, annots, extracted_data,
                   color_tuple>>

NextColor == Color

SpecColor == InitColor /\ [][NextColor]_vars

----------------------------------------------------------------------------
(* SpecPage: the annotation loop, lines 109-134, on the annotations of one page *)

InitPage ==
    /\ pc = "annots"
    /\ annots \in AnnotSeqs
    /\ i = 0
    /\ total_pages = 1
    /\ drawing_no = <<"A">>
    /\ extracted_data = <<>>
    /\ doc = <<>> /\ blocks = <<>>
    /\ color_tuple = None /\ color_hex = <<>> /\ color_name = <<>>

AnnotLoop ==
    /\ pc = "annots"
    /\ extracted_data' = annot_loop(extracted_data, annots, i, drawing_no)
    /\ pc' = "annots_done"
    /\ UNCHANGED <<total_pages, i, doc, blocks, drawing_no, annots,
                   color_tuple, color_hex, color_name>>

NextPage == AnnotLoop

SpecPage == InitPage /\ [][NextPage]_vars

----------------------------------------------------------------------------
(* Vocabulary of the properties, stated apart from the operators above *)

\* whitespace: the ASCII blanks and separators, and the Unicode spaces
Blanks ==
    {" ", "\t", "\n", "\r", "\f", "U000B"}
        \cup {"U001C", "U001D", "U001E", "U001F", "U0085", "U2028", "U2029"}
        \cup {"U00A0", "U1680", "U2000", "U2001", "U2002", "U2003", "U2004",
              "U2005", "U2006", "U2007", "U2008", "U2009", "U200A", "U202F",
              "U205F", "U3000"}
NonBlank(t) == {k \in 1..Len(t) : t[k] \notin Blanks}
Least(S) == CHOOSE k \in S : \A j \in S : k <= j
Greatest(S) == CHOOSE k \in S : \A j \in S : j <= k

\* t without its leading and trailing whitespace
Trimmed(t) == IF NonBlank(t) = {} THEN <<>>
              ELSE SubSeq(t, Least(NonBlank(t)), Greatest(NonBlank(t)))

IsNotNewline(c) == c # "\n"
NoNewline(s) == \A k \in 1..Len(s) : s[k] # "\n"
WithoutNewlines(s) == SelectSeq(s, IsNotNewline)

\* the blocks that are candidates, and the text a winning block k yields
CandidateIdx(bs) == {k \in 1..Len(bs) : Trimmed(bs[k].text) # <<>>}
TextOf(bs, k) == WithoutNewlines(Trimmed(bs[k].text))

\* block j lies strictly lower, or equally low and strictly farther right
Beats(bs, j, k) ==
    bs[j].y1 > bs[k].y1 \/ (bs[j].y1 = bs[k].y1 /\ bs[j].x1 > bs[k].x1)

\* the candidates no candidate beats
MaximalIdx(bs) ==
    {k \in CandidateIdx(bs) : \A j \in CandidateIdx(bs) : ~Beats(bs, j, k)}

----------------------------------------------------------------------------
(* C1 *)

\* C1: when some block has non-empty trimmed text, the returned string is
\* the text of a candidate whose (bottom, right) pair is lexicographically
\* maximal: no candidate lies strictly lower, and none equally low lies
\* strictly farther right.
C1_LowestThenRightmost ==
    (pc = "selected" /\ CandidateIdx(blocks) # {})
        => \E k \in MaximalIdx(blocks) : drawing_no = TextOf(blocks, k)

\* a lower candidate with a smaller right edge won against a higher one
\* farther right
C1_Witness ==
    /\ pc = "selected"
    /\ \E j, k \in CandidateIdx(blocks) :
          /\ blocks[k].y1 > blocks[j].y1
          /\ blocks[k].x1 < blocks[j].x1
          /\ TextOf(blocks, j) # TextOf(blocks, k)
          /\ drawing_no = TextOf(blocks, k)

----------------------------------------------------------------------------
(* C2 *)

\* C2 as stated: the sentinel is returned exactly when no block has
\* non-empty text after trimming.
C2_SentinelExactlyWhenNoText ==
    pc = "selected" => (drawing_no = Unreadable <=> CandidateIdx(blocks) = {})

\* C2, amended: the result is never empty, and it is the sentinel exactly
\* when no block has non-empty trimmed text or the winning block's own text
\* reads as the sentinel; a block that is empty after trimming never wins.
C2_SentinelOrWinner ==
    pc = "selected" =>
        /\ drawing_no # <<>>
        /\ drawing_no = Unreadable <=>
              \/ CandidateIdx(blocks) = {}
              \/ TextOf(blocks, Least(MaximalIdx(blocks))) = Unreadable

\* a whitespace-only block is the lowest and right-most block, and a
\* higher candidate was returned instead
C2_Witness ==
    /\ pc = "selected"
    /\ \E e, k \in 1..Len(blocks) :
          /\ e \notin CandidateIdx(blocks)
          /\ blocks[e].text # <<>>
          /\ k \in CandidateIdx(blocks)
          /\ blocks[e].y1 > blocks[k].y1
          /\ blocks[e].x1 > blocks[k].x1
          /\ drawing_no = TextOf(blocks, k)
          /\ drawing_no # Unreadable

----------------------------------------------------------------------------
(* C7 *)

\* C7: the returned string contains no newline; when a candidate exists it
\* is a candidate's trimmed text with every newline deleted and nothing put
\* in its place.
C7_NoNewline ==
    pc = "selected" =>
        /\ NoNewline(drawing_no)
        /\ CandidateIdx(blocks) # {} =>
              \E k \in CandidateIdx(blocks) :
                  /\ drawing_no = WithoutNewlines(Trimmed(blocks[k].text))
                  /\ Len(drawing_no) = Len(Trimmed(blocks[k].text))
                         - Cardinality({n \in 1..Len(Trimmed(blocks[k].text)) :
                                           Trimmed(blocks[k].text)[n] = "\n"})

\* the winner's trimmed text had a newline inside, and the parts came out
\* concatenated
C7_Witness ==
    /\ pc = "selected"
    /\ \E k \in CandidateIdx(blocks) :
          /\ ~NoNewline(Trimmed(blocks[k].text))
          /\ drawing_no = TextOf(blocks, k)
          /\ Len(drawing_no) < Len(Trimmed(blocks[k].text))
    /\ drawing_no = <<"A", "B">>

----------------------------------------------------------------------------
(* C10 *)

\* C10: among the candidates that share the maximal (bottom, right) pair the
\* first one in block order is returned.
C10_FirstOfTies ==
    (pc = "selected" /\ CandidateIdx(blocks) # {})
        => drawing_no = TextOf(blocks, Least(MaximalIdx(blocks)))

\* two candidates with different texts tie on the maximal pair
C10_Witness ==
    /\ pc = "selected"
    /\ \E j, k \in MaximalIdx(blocks) :
          /\ j < k
          /\ TextOf(blocks, j) # TextOf(blocks, k)
          /\ drawing_no = TextOf(blocks, j)

----------------------------------------------------------------------------
(* C5, C9 *)

LowerHexChars == <<"0", "1", "2", "3", "4", "5", "6", "7",
                   "8", "9", "a", "b", "c", "d", "e", "f">>
HexCharSet == {LowerHexChars[k] : k \in 1..Len(LowerHexChars)} \cup {"A", "B", "C", "D", "E", "F"}

\* s is a #rrggbb code, in either case
IsHexCode(s) == Len(s) = 7 /\ s[1] = "#" /\ \A k \in 2..7 : s[k] \in HexCharSet

\* s is '#' followed by six lowercase hex digits
IsLowerHexCode(s) ==
    Len(s) = 7 /\ s[1] = "#" /\ \A k \in 2..7 : \E n \in 1..Len(LowerHexChars) : s[k] = LowerHexChars[n]

\* the 8-bit value of a channel in [0,1], and its two hex digits
EightBit(c) == (c.num * 255) \div c.den
TwoHex(v) == <<LowerHexChars[(v \div 16) + 1], LowerHexChars[(v % 16) + 1]>>

ChannelsInUnitRange(t) == \A k \in 1..Len(t) : 0 <= t[k].num /\ t[k].num <= t[k].den

\* C5: on channels in [0,1], absent or empty input gives the not-specified
\* sentinel, which is neither a hex code nor empty; three channels give '#'
\* and the three 8-bit values in order as two lowercase hex digits each; one
\* channel gives the same with its value in all three places; any other
\* length gives a string that is no hex code.
C5_ToHex ==
    pc = "colored" =>
        /\ NotSpecified # <<>> /\ ~IsHexCode(NotSpecified)
        /\ (color_tuple = None \/ color_tuple = Some(<<>>)) => color_hex = NotSpecified
        /\ (color_tuple # None /\ ChannelsInUnitRange(color_tuple[1])) =>
              LET t == color_tuple[1]
              IN  /\ Len(t) = 3 =>
                        color_hex = <<"#">> \o TwoHex(EightBit(t[1]))
                                    \o TwoHex(EightBit(t[2])) \o TwoHex(EightBit(t[3]))
                  /\ Len(t) = 1 =>
                        color_hex = <<"#">> \o TwoHex(EightBit(t[1]))
                                    \o TwoHex(EightBit(t[1])) \o TwoHex(EightBit(t[1]))
                  /\ Len(t) \notin {0, 1, 3} => ~IsHexCode(color_hex)
        /\ color_tuple = Some(<<F(1, 1), F(0, 1), F(0, 1)>>)
              => color_hex = <<"#", "f", "f", "0", "0", "0", "0">>
        /\ color_tuple = Some(<<F(0, 1)>>)
              => color_hex = <<"#", "0", "0", "0", "0", "0", "0">>

\* three different channels in [0,1] were encoded in order
C5_Witness ==
    /\ pc = "colored"
    /\ color_tuple = Some(<<F(1, 1), F(1, 2), F(1, 8)>>)
    /\ color_hex = <<"#", "f", "f", "7", "f", "1", "f">>

\* C9: every channel value is brought into [0,255], so every input of
\* length 1 or 3, also with channel values below 0 or above 1, gives '#'
\* followed by six lowercase hex digits.
C9_AlwaysSixHexDigits ==
    (pc = "colored" /\ color_tuple # None /\ Len(color_tuple[1]) \in {1, 3})
        => IsLowerHexCode(color_hex)

----------------------------------------------------------------------------
(* C3 *)

\* the annotations of as_ whose content is present and not blank, in order
HasText(a) == a.content # None /\ NonBlank(a.content[1]) # {}
WithText(as_) == SelectSeq(as_, HasText)

\* C3: the annotation loop drops exactly the annotations whose content is
\* absent, empty or whitespace-only and emits one row for every other
\* annotation, in the original order.
C3_DropsBlankContent ==
    pc = "annots_done" =>
        /\ Len(extracted_data) = Len(WithText(annots))
        /\ \A k \in 1..Len(extracted_data) :
              /\ k <= Len(WithText(annots))
              /\ extracted_data[k].content = WithText(annots)[k].content[1]
              /\ extracted_data[k].color_hex = rgb_to_hex(WithText(annots)[k].stroke)

----------------------------------------------------------------------------
(* C6 *)

\* s equals the hex code t (written in upper case) up to the case of its
\* letters
SameIgnoringCase(s, t) ==
    /\ Len(s) = Len(t)
    /\ \A k \in 1..Len(s) :
          \/ s[k] = t[k]
          \/ \E n \in 1..Len(LowerLetters) : s[k] = LowerLetters[n] /\ t[k] = UpperLetters[n]

HexRed == <<"#", "F", "F", "0", "0", "0", "0">>
HexBlue == <<"#", "0", "0", "0", "0", "F", "F">>
HexBlack == <<"#", "0", "0", "0", "0", "0", "0">>

\* C6: in every emitted row the colour name is Red iff the colour code is
\* #FF0000 up to case, Blue iff #0000FF, Black iff #000000, and Other in
\* every remaining case, the not-specified sentinel and the fallback of the
\* other lengths among them.
C6_ColorName ==
    \A k \in 1..Len(extracted_data) :
        LET row == extracted_data[k]
        IN  /\ row.color_name = Red <=> SameIgnoringCase(row.color_hex, HexRed)
            /\ row.color_name = Blue <=> SameIgnoringCase(row.color_hex, HexBlue)
            /\ row.color_name = Black <=> SameIgnoringCase(row.color_hex, HexBlack)
            /\ row.color_name = Other <=>
                  /\ ~SameIgnoringCase(row.color_hex, HexRed)
                  /\ ~SameIgnoringCase(row.color_hex, HexBlue)
                  /\ ~SameIgnoringCase(row.color_hex, HexBlack)
            /\ (row.color_hex = NotSpecified \/ ~IsHexCode(row.color_hex))
                  => row.color_name = Other

\* a page gave a red row and a row of a four-channel colour
C6_Witness ==
    /\ pc = "annots_done"
    /\ Len(extracted_data) = 2
    /\ extracted_data[1].color_hex = <<"#", "f", "f", "0", "0", "0", "0">>
    /\ extracted_data[1].color_name = Red
    /\ annots[2].stroke # None /\ Len(annots[2].stroke[1]) = 4
    /\ extracted_data[2].color_name = Other

----------------------------------------------------------------------------
(* C4 *)

\* C4: after any prefix of the pages, every row carries the 1-based number
\* of a page already processed and the drawing number selected from that
\* page's blocks.
C4_RowsMatchTheirPage ==
    \A k \in 1..Len(extracted_data) :
        LET row == extracted_data[k]
        IN  /\ row.page \in 1..Len(doc)
            /\ row.page <= i
            /\ row.drawing_no = get_drawing_number(doc[row.page].blocks)

\* rows of two pages whose drawing numbers differ
C4_Witness ==
    /\ Len(doc) >= 2
    /\ get_drawing_number(doc[1].blocks) # get_drawing_number(doc[2].blocks)
    /\ \E j, k \in 1..Len(extracted_data) :
          /\ extracted_data[j].page = 1
          /\ extracted_data[k].page = 2
          /\ extracted_data[j].drawing_no # extracted_data[k].drawing_no

----------------------------------------------------------------------------
(* C8 *)

HasContent(a) == a.content # None /\ a.content[1] # <<>>

PagesNonDecreasing ==
    \A j, k \in 1..Len(extracted_data) :
        j <= k => extracted_data[j].page <= extracted_data[k].page

\* a step leaves the rows it found where they are and puts behind them only
\* rows of the page it processes, one per annotation with content, in the
\* order of the annotations
AppendsRowsOfThePage ==
    /\ Len(extracted_data') >= Len(extracted_data)
    /\ SubSeq(extracted_data', 1, Len(extracted_data)) = extracted_data
    /\ LET new == SubSeq(extracted_data', Len(extracted_data) + 1, Len(extracted_data'))
       IN  new # <<>> =>
              /\ \A k \in 1..Len(new) : new[k].page = i + 1
              /\ Len(new) = Len(SelectSeq(annots', HasContent))
              /\ \A k \in 1..Len(new) :
                    new[k].content = SelectSeq(annots', HasContent)[k].content[1]

\* C8: the result sequence is append-only and ordered: the page numbers
\* never decrease along it, and processing a page only appends that page's
\* rows, in annotation order, behind the rows already there.
C8_AppendOnlyInPageOrder ==
    []PagesNonDecreasing /\ [][AppendsRowsOfThePage]_vars

\* two rows of page 1 in annotation order, then a row of page 2
C8_Witness ==
    /\ Len(extracted_data) = 3
    /\ Len(doc) = 2
    /\ extracted_data[1].page = 1 /\ extracted_data[1].content = <<"y">>
    /\ extracted_data[2].page = 1 /\ extracted_data[2].content = <<"x">>
    /\ extracted_data[3].page = 2
    /\ doc[1].annots[1].content = Some(<<"y">>)

====
